---- MODULE Spec2Model ----
(***************************************************************************)
(* Todo HTTP API: the route handlers of src/index.js (the hardened        *)
(* handlers, lines 102-417), their validation helpers, and the D1 table    *)
(* behind src/db.js.                                                       *)
(*                                                                         *)
(* A string is a tuple of one-character strings.  A JSON/JS value is a     *)
(* record [t, s] with its type tag t and, for strings, its characters s.   *)
(* A description is kept by what the code reads of it: its type, its       *)
(* length and the set of block-listed substrings it contains.              *)
(***************************************************************************)
EXTENDS Integers, Sequences, FiniteSets, TLC

VARIABLES
    table,    \* the rows of the todos table: a set of [id, title, description, status]
    seq,      \* AUTOINCREMENT: the largest id ever assigned
    req,      \* the request handled last
    res,      \* the response to it
    prev,     \* the table as it was when that request arrived
    calls,    \* the persistence calls that request issued, in order
    failed,   \* the failure that struck while handling it (NoFault: none did)
    route,    \* the route that handled it ("": no request is being answered)
    stub,     \* what dbLayer.deleteTodo was stubbed to resolve to (NoStub: not stubbed)
    inflight, \* the requests being handled at the same time, one per client
    arg,      \* the value sanitizeTitle is called with
    out       \* what the calls of sanitizeTitle returned, in order

vars == <<table, seq, req, res, prev, calls, failed, route, stub, inflight, arg, out>>

----------------------------------------------------------------------------
(* Bounds                                                                  *)

\* The number of rows ever inserted (caps the AUTOINCREMENT counter).
MaxId == 2

\* The length of the longest title sanitizeTitle is called with.
MaxTitleLen == 4

----------------------------------------------------------------------------
(* Characters and strings                                                  *)

\* The characters matched by \s and removed by String.prototype.trim.
WhiteSpace == {" ", "\t", "\n"}

DigitChars == <<"0", "1", "2", "3", "4", "5", "6", "7", "8", "9">>

IsDigit(c) == \E i \in 1..10 : DigitChars[i] = c

DigitOf(c) == (CHOOSE i \in 1..10 : DigitChars[i] = c) - 1

S_todos == <<"t", "o", "d", "o", "s">>

RECURSIVE trimStart(_)
trimStart(s) ==
    IF s # <<>> /\ Head(s) \in WhiteSpace THEN trimStart(Tail(s)) ELSE s

RECURSIVE trimEnd(_)
trimEnd(s) ==
    IF s # <<>> /\ s[Len(s)] \in WhiteSpace
    THEN trimEnd(SubSeq(s, 1, Len(s) - 1))
    ELSE s

\* String.prototype.trim
trim(s) == trimEnd(trimStart(s))

\* s.replace(/\s+/g, " "): every maximal run of whitespace becomes one space.
RECURSIVE replaceWhitespaceRuns(_)
replaceWhitespaceRuns(s) ==
    IF s = <<>> THEN <<>>
    ELSE IF Head(s) \in WhiteSpace
         THEN <<" ">> \o replaceWhitespaceRuns(trimStart(s))
         ELSE <<Head(s)>> \o replaceWhitespaceRuns(Tail(s))

\* The decimal digits of a non-negative integer (Number -> String, as in a URL).
RECURSIVE ToDecimal(_)
ToDecimal(n) ==
    IF n < 10 THEN <<DigitChars[n + 1]>>
    ELSE ToDecimal(n \div 10) \o <<DigitChars[(n % 10) + 1]>>

RECURSIVE digitsValue(_, _)
digitsValue(s, acc) ==
    IF s = <<>> \/ ~IsDigit(Head(s)) THEN acc
    ELSE digitsValue(Tail(s), acc * 10 + DigitOf(Head(s)))

\* parseInt(string) with no radix, on inputs without a 0x prefix: leading
\* whitespace is skipped, one sign is read, then the longest run of decimal
\* digits; whatever follows the digits is ignored; no digit at all gives NaN.
parseInt(s) ==
    LET t == trimStart(s)
        neg == t # <<>> /\ Head(t) = "-"
        signed == t # <<>> /\ Head(t) \in {"-", "+"}
        d == IF signed THEN Tail(t) ELSE t
    IN  IF d = <<>> \/ ~IsDigit(Head(d))
        THEN [nan |-> TRUE, v |-> 0]
        ELSE [nan |-> FALSE,
              v |-> IF neg THEN 0 - digitsValue(d, 0) ELSE digitsValue(d, 0)]

----------------------------------------------------------------------------
(* JSON / JS values                                                        *)

Undefined == [t |-> "undefined", s |-> <<>>]
Null == [t |-> "null", s |-> <<>>]
Str(s) == [t |-> "string", s |-> s]
\* a number: s holds its decimal digits, so zero is <<"0">>
Num(n) == [t |-> "number", s |-> ToDecimal(n)]

\* ToBoolean: what !v negates.
Truthy(v) ==
    CASE v.t = "undefined" -> FALSE
      [] v.t = "null" -> FALSE
      [] v.t = "string" -> v.s # <<>>
      [] v.t = "number" -> v.s # <<"0">>
      [] OTHER -> TRUE

\* A description: type, length, and the block-listed substrings it contains.
NoDescription == [t |-> "undefined", len |-> 0, has |-> {}]
NullDescription == [t |-> "null", len |-> 0, has |-> {}]
Text(len, has) == [t |-> "string", len |-> len, has |-> has]
\* a non-zero number given as description
NumberDescription == [t |-> "number", len |-> 0, has |-> {}]

DescTruthy(d) ==
    CASE d.t = "string" -> d.len > 0
      [] d.t = "number" -> TRUE
      [] OTHER -> FALSE

DescOrNull(d) == IF d.t \in {"undefined", "null"} THEN NullDescription ELSE d

----------------------------------------------------------------------------
(* Validation helpers (src/index.js)                                       *)

DEFAULT_STATUS == "incomplete"

HTTP_STATUS ==
    [OK |-> 200, CREATED |-> 201, BAD_REQUEST |-> 400, NOT_FOUND |-> 404,
     METHOD_NOT_ALLOWED |-> 405, INTERNAL_SERVER_ERROR |-> 500]

validStatuses == {"incomplete", "in-progress", "complete", "archived"}

\* A status as it arrives in a body: its type and, for a string, the word.
NoStatus == [t |-> "undefined", w |-> ""]
NullStatus == [t |-> "null", w |-> ""]
Word(w) == [t |-> "string", w |-> w]
NumberStatus == [t |-> "number", w |-> ""]

\* Mutant: every string passes, whatever its word.
isValidStatus_AnyString(status) == status.t = "string"

\* validStatuses.includes(status): only a string equal to one of the four
isValidStatus(status) == status.t = "string" /\ status.w \in validStatuses

\* Mutant: trims but leaves interior whitespace runs as they are.
sanitizeTitle_TrimOnly(title) ==
    IF ~Truthy(title) \/ title.t # "string" THEN <<>> ELSE trim(title.s)

\* Mutant: whitespace runs are collapsed but the ends are not trimmed.
sanitizeTitle_NoTrim(title) ==
    IF ~Truthy(title) \/ title.t # "string" THEN <<>>
    ELSE IF Len(trim(title.s)) = 0 THEN <<>> ELSE replaceWhitespaceRuns(title.s)

\* Mutant: at most one whitespace character is removed from each end.
sanitizeTitle_TrimOnce(title) ==
    IF ~Truthy(title) \/ title.t # "string" THEN <<>>
    ELSE LET s == title.s
             a == IF Head(s) \in WhiteSpace THEN Tail(s) ELSE s
             b == IF a # <<>> /\ a[Len(a)] \in WhiteSpace
                  THEN SubSeq(a, 1, Len(a) - 1)
                  ELSE a
         IN  replaceWhitespaceRuns(b)

sanitizeTitle(title) ==
    IF ~Truthy(title) \/ title.t # "string" THEN <<>>
    ELSE LET trimmed == trim(title.s)
         IN  IF Len(trimmed) = 0 THEN <<>> ELSE replaceWhitespaceRuns(trimmed)

validateTodoId(id) ==
    LET parsedId == parseInt(id)
    IN  IF parsedId.nan \/ parsedId.v <= 0
        THEN [isValid |-> FALSE, parsedId |-> 0, error |-> "Invalid ID"]
        ELSE [isValid |-> TRUE, parsedId |-> parsedId.v, error |-> ""]

\* the default of isDescriptionTooLong's maxLength parameter
maxLength == 1000

\* the "extreme length" limit of isValidDescription
extremeLength == 5000

\* Mutant: compares with the extreme-length limit instead of maxLength.
isDescriptionTooLong_Extreme(description) ==
    IF ~DescTruthy(description) THEN FALSE
    ELSE description.t = "string" /\ description.len > extremeLength

isDescriptionTooLong(description) ==
    IF ~DescTruthy(description) THEN FALSE
    ELSE description.t = "string" /\ description.len > maxLength

\* description.includes is not a function on a number: the call throws.
isValidDescriptionThrows(description) ==
    DescTruthy(description) /\ description.t # "string"

\* Mutant: only the first two patterns are looked for.
isValidDescription_TwoPatterns(description) ==
    IF ~DescTruthy(description) THEN TRUE
    ELSE IF "<script>" \in description.has THEN FALSE
    ELSE IF "javascript:" \in description.has THEN FALSE
    ELSE IF description.len > extremeLength THEN FALSE
    ELSE TRUE

isValidDescription(description) ==
    IF ~DescTruthy(description) THEN TRUE
    ELSE IF "<script>" \in description.has THEN FALSE
    ELSE IF "javascript:" \in description.has THEN FALSE
    ELSE IF "onerror=" \in description.has THEN FALSE
    ELSE IF "onload=" \in description.has THEN FALSE
    ELSE IF description.len > extremeLength THEN FALSE
    ELSE TRUE

----------------------------------------------------------------------------
(* Persistence layer (src/db.js) over the todos table                      *)
(*   id INTEGER PRIMARY KEY AUTOINCREMENT, title, description, status      *)

Row(id, title, description, status) ==
    [id |-> id, title |-> title, description |-> description, status |-> status]

\* the rows of T in rowid order
RECURSIVE RowsInOrder(_)
RowsInOrder(T) ==
    IF T = {} THEN <<>>
    ELSE LET first == CHOOSE r \in T : \A o \in T : r.id <= o.id
         IN  <<first>> \o RowsInOrder(T \ {first})

\* Mutant: SELECT * FROM todos LIMIT 1
getAllTodos_Limit1(T) ==
    [results |-> IF T = {} THEN <<>> ELSE <<RowsInOrder(T)[1]>>]

\* SELECT * FROM todos
getAllTodos(T) == [results |-> RowsInOrder(T)]

\* Mutant: the WHERE clause is missing, every row is selected.
getTodoById_NoWhere(T, id) == [results |-> RowsInOrder(T)]

\* SELECT * FROM todos WHERE id = ?
getTodoById(T, id) == [results |-> RowsInOrder({r \in T : r.id = id})]

\* INSERT INTO todos (title, description, status) VALUES (?, ?, ?)
\* AUTOINCREMENT gives the row an id one above the largest ever assigned.
insertTodo(T, q, title, description, status) ==
    [table |-> T \cup {Row(q + 1, title, description, status)}, seq |-> q + 1]

\* Mutant: ORDER BY id ASC, the oldest row instead of the latest.
getLatestTodo_Oldest(T) ==
    [results |-> IF T = {} THEN <<>>
                 ELSE <<CHOOSE r \in T : \A o \in T : r.id <= o.id>>]

\* SELECT * FROM todos ORDER BY id DESC LIMIT 1
getLatestTodo(T) ==
    [results |-> IF T = {} THEN <<>>
                 ELSE <<CHOOSE r \in T : \A o \in T : o.id <= r.id>>]

\* SELECT 1 FROM todos WHERE id = ?
todoExists(T, id) == [results |-> [i \in 1..Cardinality({r \in T : r.id = id}) |-> 1]]

\* Mutant: the WHERE clause is missing, every row is overwritten.
updateTodo_NoWhere(T, id, title, description, status) ==
    [table |-> {Row(r.id, title, description, status) : r \in T}]

\* Mutant: INSERT OR REPLACE, a missing row is written anew.
updateTodo_Upsert(T, id, title, description, status) ==
    [table |-> {r \in T : r.id # id} \cup {Row(id, title, description, status)}]

\* UPDATE todos SET title = ?, description = ?, status = ? WHERE id = ?
updateTodo(T, id, title, description, status) ==
    [table |-> {IF r.id = id THEN Row(r.id, title, description, status) ELSE r : r \in T}]

\* What run() resolves to for a DELETE: meta.changes counts the rows removed.
DeleteResult(hasMeta, hasChanges, changes) ==
    [hasMeta |-> hasMeta, hasChanges |-> hasChanges, changes |-> changes]

\* dbLayer.deleteTodo is the function of src/db.js
NoStub == [hasMeta |-> FALSE, hasChanges |-> FALSE, changes |-> -1]

\* Mutant: the row is removed but the result reports no affected row.
deleteTodo_ZeroCount(T, id) ==
    [table |-> {r \in T : r.id # id}, result |-> DeleteResult(TRUE, TRUE, 0)]

\* DELETE FROM todos WHERE id = ?
deleteTodo(T, id) ==
    [table |-> {r \in T : r.id # id},
     result |-> DeleteResult(TRUE, TRUE, Cardinality({r \in T : r.id = id}))]

----------------------------------------------------------------------------
(* Requests, failures and responses                                        *)

\* A failure of a persistence call: at is the position of the call within the
\* request (0: no call fails), hasMessage whether the thrown value has a
\* message property, message its text.
Fault(at, hasMessage, message) ==
    [at |-> at, hasMessage |-> hasMessage, message |-> message]

NoFault == Fault(0, FALSE, "")

Body(k, title, description, status) ==
    [k |-> k, title |-> title, description |-> description, status |-> status]

\* a JSON object with the three fields (an absent field is Undefined)
Object(title, description, status) == Body("object", title, description, status)
\* a body request.json() rejects
Malformed == Body("malformed", Undefined, NoDescription, NoStatus)
\* the JSON text null
NullBody == Body("null", Undefined, NoDescription, NoStatus)
\* a JSON number, string or array: every field read of it gives undefined
NonObject == Body("nonobject", Undefined, NoDescription, NoStatus)

Request(method, path, body) == [method |-> method, path |-> path, body |-> body]

ErrorBody(text) == [kind |-> "error", error |-> text, rows |-> <<>>]
TodoBody(rows) ==
    IF rows = <<>> THEN [kind |-> "undefined", error |-> "", rows |-> <<>>]
    ELSE [kind |-> "todo", error |-> "", rows |-> <<rows[1]>>]
ListBody(rows) == [kind |-> "list", error |-> "", rows |-> rows]
SuccessBody == [kind |-> "success", error |-> "", rows |-> <<>>]
OkBody == [kind |-> "ok", error |-> "", rows |-> <<>>]

\* json(body, {status})
json(body, status) == [status |-> status, body |-> body]

\* the handler threw and no response was produced
Thrown == [status |-> 0, body |-> [kind |-> "thrown", error |-> "", rows |-> <<>>]]

\* err.message || "DB failure"
errorMessage(f) ==
    IF f.hasMessage /\ f.message # "" THEN f.message ELSE "DB failure"

\* the catch block of a handler
dbFailure(f) == json(ErrorBody(errorMessage(f)), HTTP_STATUS.INTERNAL_SERVER_ERROR)

\* What handling a request comes to: the response, the table and counter
\* afterwards, the persistence calls issued and the failure that struck.
Outcome(response, T, q, cs, f) ==
    [res |-> response, table |-> T, seq |-> q, calls |-> cs, failed |-> f]

\* a response sent before any persistence call
Reject(T, q, text) ==
    Outcome(json(ErrorBody(text), HTTP_STATUS.BAD_REQUEST), T, q, <<>>, NoFault)

----------------------------------------------------------------------------
(* Route handlers (src/index.js)                                           *)
(* Each takes the table T, the counter q, the request r and the failure f  *)
(* that the persistence layer will raise, and gives the Outcome.           *)

\* Mutant: the health check reads the table first.
root_Probe(T, q, r, f) ==
    Outcome(json(OkBody, HTTP_STATUS.OK), T, q, <<"getAllTodos">>, NoFault)

\* router.get("/")
root(T, q, r, f) ==
    Outcome(json(OkBody, HTTP_STATUS.OK), T, q, <<>>, NoFault)

\* router.get("/todos")
listTodos(T, q, r, f) ==
    IF f.at = 1
    THEN Outcome(dbFailure(f), T, q, <<"getAllTodos">>, f)
    ELSE Outcome(json(ListBody(getAllTodos(T).results), HTTP_STATUS.OK),
                 T, q, <<"getAllTodos">>, NoFault)

\* Mutant: the persistence call is not wrapped in try/catch, a failure escapes.
getTodo_NoCatch(T, q, r, f) ==
    LET validation == validateTodoId(r.path[2])
        id == validation.parsedId
    IN  IF ~validation.isValid THEN Reject(T, q, validation.error)
        ELSE IF f.at = 1
        THEN Outcome(Thrown, T, q, <<"getTodoById">>, f)
        ELSE LET results == getTodoById(T, id).results
             IN  IF Len(results) = 0
                 THEN Outcome(json(ErrorBody("Not found"), HTTP_STATUS.NOT_FOUND),
                              T, q, <<"getTodoById">>, NoFault)
                 ELSE Outcome(json(TodoBody(results), HTTP_STATUS.OK),
                              T, q, <<"getTodoById">>, NoFault)

\* router.get("/todos/:id")
getTodo(T, q, r, f) ==
    LET validation == validateTodoId(r.path[2])
        id == validation.parsedId
    IN  IF ~validation.isValid THEN Reject(T, q, validation.error)
        ELSE IF f.at = 1
        THEN Outcome(dbFailure(f), T, q, <<"getTodoById">>, f)
        ELSE LET results == getTodoById(T, id).results
             IN  IF Len(results) = 0
                 THEN Outcome(json(ErrorBody("Not found"), HTTP_STATUS.NOT_FOUND),
                              T, q, <<"getTodoById">>, NoFault)
                 ELSE Outcome(json(TodoBody(results), HTTP_STATUS.OK),
                              T, q, <<"getTodoById">>, NoFault)

\* Mutant: the latest row is fetched even after the insert failed.
createPersist_FetchAfterFailure(T, q, sanitizedTitle, description, status, f) ==
    IF f.at = 1
    THEN Outcome(dbFailure(f), T, q, <<"insertTodo", "getLatestTodo">>, f)
    ELSE LET ins == insertTodo(T, q, sanitizedTitle, description, status)
         IN  IF f.at = 2
             THEN Outcome(dbFailure(f), ins.table, ins.seq,
                          <<"insertTodo", "getLatestTodo">>, f)
             ELSE Outcome(json(TodoBody(getLatestTodo(ins.table).results),
                               HTTP_STATUS.CREATED),
                          ins.table, ins.seq,
                          <<"insertTodo", "getLatestTodo">>, NoFault)

\* router.post("/todos"), from the insert on (the try block)
createPersist(T, q, sanitizedTitle, description, status, f) ==
    IF f.at = 1
    THEN Outcome(dbFailure(f), T, q, <<"insertTodo">>, f)
    ELSE LET ins == insertTodo(T, q, sanitizedTitle, description, status)
         IN  IF f.at = 2
             THEN Outcome(dbFailure(f), ins.table, ins.seq,
                          <<"insertTodo", "getLatestTodo">>, f)
             ELSE Outcome(json(TodoBody(getLatestTodo(ins.table).results),
                               HTTP_STATUS.CREATED),
                          ins.table, ins.seq,
                          <<"insertTodo", "getLatestTodo">>, NoFault)

\* Mutant: the blocklist check comes before the length check.
createTodo_BlocklistFirst(T, q, r, f) ==
    LET body == r.body
        sanitizedTitle == sanitizeTitle(body.title)
        description == DescOrNull(body.description)
        status == IF isValidStatus(body.status) THEN body.status.w ELSE DEFAULT_STATUS
    IN  IF body.k = "malformed" THEN Reject(T, q, "Invalid JSON")
        ELSE IF body.k = "null" THEN Outcome(Thrown, T, q, <<>>, NoFault)
        ELSE IF ~Truthy(body.title) THEN Reject(T, q, "Title required")
        ELSE IF sanitizedTitle = <<>> THEN Reject(T, q, "Title cannot be empty")
        ELSE IF isValidDescriptionThrows(description)
        THEN Outcome(Thrown, T, q, <<>>, NoFault)
        ELSE IF ~isValidDescription(description)
        THEN Reject(T, q, "Description contains invalid content")
        ELSE IF isDescriptionTooLong(description)
        THEN Reject(T, q, "Description is too long (max 1000 characters)")
        ELSE createPersist(T, q, sanitizedTitle, description, status, f)

\* router.post("/todos")
createTodo(T, q, r, f) ==
    LET body == r.body
        sanitizedTitle == sanitizeTitle(body.title)
        description == DescOrNull(body.description)
        status == IF isValidStatus(body.status) THEN body.status.w ELSE DEFAULT_STATUS
    IN  IF body.k = "malformed" THEN Reject(T, q, "Invalid JSON")
        ELSE IF body.k = "null" THEN Outcome(Thrown, T, q, <<>>, NoFault)
        ELSE IF ~Truthy(body.title) THEN Reject(T, q, "Title required")
        ELSE IF sanitizedTitle = <<>> THEN Reject(T, q, "Title cannot be empty")
        ELSE IF isDescriptionTooLong(description)
        THEN Reject(T, q, "Description is too long (max 1000 characters)")
        ELSE IF isValidDescriptionThrows(description)
        THEN Outcome(Thrown, T, q, <<>>, NoFault)
        ELSE IF ~isValidDescription(description)
        THEN Reject(T, q, "Description contains invalid content")
        ELSE createPersist(T, q, sanitizedTitle, description, status, f)

\* Mutant: the description length is checked before the existence check.
updatePersist_LengthFirst(T, q, id, sanitizedTitle, body, f) ==
    LET description == DescOrNull(body.description)
        status == IF isValidStatus(body.status) THEN body.status.w ELSE DEFAULT_STATUS
        exists == todoExists(T, id).results
        upd == updateTodo(T, id, sanitizedTitle, description, status)
    IN  IF isDescriptionTooLong(description)
        THEN Reject(T, q, "Description is too long (max 1000 characters)")
        ELSE IF f.at = 1
        THEN Outcome(dbFailure(f), T, q, <<"todoExists">>, f)
        ELSE IF Len(exists) = 0
        THEN Outcome(json(ErrorBody("Not found"), HTTP_STATUS.NOT_FOUND),
                     T, q, <<"todoExists">>, NoFault)
        ELSE IF f.at = 2
        THEN Outcome(dbFailure(f), T, q, <<"todoExists", "updateTodo">>, f)
        ELSE IF f.at = 3
        THEN Outcome(dbFailure(f), upd.table, q,
                     <<"todoExists", "updateTodo", "getTodoById">>, f)
        ELSE Outcome(json(TodoBody(getTodoById(upd.table, id).results), HTTP_STATUS.OK),
                     upd.table, q,
                     <<"todoExists", "updateTodo", "getTodoById">>, NoFault)

\* Mutant: the row is written before the description length is checked.
updatePersist_WriteFirst(T, q, id, sanitizedTitle, body, f) ==
    LET description == DescOrNull(body.description)
        status == IF isValidStatus(body.status) THEN body.status.w ELSE DEFAULT_STATUS
        exists == todoExists(T, id).results
        upd == updateTodo(T, id, sanitizedTitle, description, status)
    IN  IF f.at = 1
        THEN Outcome(dbFailure(f), T, q, <<"todoExists">>, f)
        ELSE IF Len(exists) = 0
        THEN Outcome(json(ErrorBody("Not found"), HTTP_STATUS.NOT_FOUND),
                     T, q, <<"todoExists">>, NoFault)
        ELSE IF f.at = 2
        THEN Outcome(dbFailure(f), T, q, <<"todoExists", "updateTodo">>, f)
        ELSE IF isDescriptionTooLong(description)
        THEN Outcome(json(ErrorBody("Description is too long (max 1000 characters)"),
                          HTTP_STATUS.BAD_REQUEST),
                     upd.table, q, <<"todoExists", "updateTodo">>, NoFault)
        ELSE IF f.at = 3
        THEN Outcome(dbFailure(f), upd.table, q,
                     <<"todoExists", "updateTodo", "getTodoById">>, f)
        ELSE Outcome(json(TodoBody(getTodoById(upd.table, id).results), HTTP_STATUS.OK),
                     upd.table, q,
                     <<"todoExists", "updateTodo", "getTodoById">>, NoFault)

\* router.put("/todos/:id"), from the existence check on (the try block)
updatePersist(T, q, id, sanitizedTitle, body, f) ==
    LET description == DescOrNull(body.description)
        status == IF isValidStatus(body.status) THEN body.status.w ELSE DEFAULT_STATUS
        exists == todoExists(T, id).results
        upd == updateTodo(T, id, sanitizedTitle, description, status)
    IN  IF f.at = 1
        THEN Outcome(dbFailure(f), T, q, <<"todoExists">>, f)
        ELSE IF Len(exists) = 0
        THEN Outcome(json(ErrorBody("Not found"), HTTP_STATUS.NOT_FOUND),
                     T, q, <<"todoExists">>, NoFault)
        ELSE IF isDescriptionTooLong(description)
        THEN Outcome(json(ErrorBody("Description is too long (max 1000 characters)"),
                          HTTP_STATUS.BAD_REQUEST),
                     T, q, <<"todoExists">>, NoFault)
        ELSE IF f.at = 2
        THEN Outcome(dbFailure(f), T, q, <<"todoExists", "updateTodo">>, f)
        ELSE IF f.at = 3
        THEN Outcome(dbFailure(f), upd.table, q,
                     <<"todoExists", "updateTodo", "getTodoById">>, f)
        ELSE Outcome(json(TodoBody(getTodoById(upd.table, id).results), HTTP_STATUS.OK),
                     upd.table, q,
                     <<"todoExists", "updateTodo", "getTodoById">>, NoFault)

\* Mutant: the body is parsed before the id is validated.
updateTodoRoute_JsonFirst(T, q, r, f) ==
    LET validation == validateTodoId(r.path[2])
        id == validation.parsedId
        body == r.body
        sanitizedTitle == sanitizeTitle(body.title)
    IN  IF body.k = "malformed" THEN Reject(T, q, "Invalid JSON")
        ELSE IF ~validation.isValid THEN Reject(T, q, validation.error)
        ELSE IF body.k = "null" THEN Outcome(Thrown, T, q, <<>>, NoFault)
        ELSE IF ~Truthy(body.title) THEN Reject(T, q, "Title required for PUT")
        ELSE IF sanitizedTitle = <<>> THEN Reject(T, q, "Title cannot be empty")
        ELSE updatePersist(T, q, id, sanitizedTitle, body, f)

\* router.put("/todos/:id")
updateTodoRoute(T, q, r, f) ==
    LET validation == validateTodoId(r.path[2])
        id == validation.parsedId
        body == r.body
        sanitizedTitle == sanitizeTitle(body.title)
    IN  IF ~validation.isValid THEN Reject(T, q, validation.error)
        ELSE IF body.k = "malformed" THEN Reject(T, q, "Invalid JSON")
        ELSE IF body.k = "null" THEN Outcome(Thrown, T, q, <<>>, NoFault)
        ELSE IF ~Truthy(body.title) THEN Reject(T, q, "Title required for PUT")
        ELSE IF sanitizedTitle = <<>> THEN Reject(T, q, "Title cannot be empty")
        ELSE updatePersist(T, q, id, sanitizedTitle, body, f)

\* Mutant: only a missing meta is answered 404, the count is not looked at.
deleteResponse_MetaOnly(result) ==
    IF ~result.hasMeta
    THEN json(ErrorBody("Not found"), HTTP_STATUS.NOT_FOUND)
    ELSE json(SuccessBody, HTTP_STATUS.OK)

\* The response of router.delete("/todos/:id") to what deleteTodo resolved to.
deleteResponse(result) ==
    IF ~result.hasMeta \/ (result.hasChanges /\ result.changes = 0)
    THEN json(ErrorBody("Not found"), HTTP_STATUS.NOT_FOUND)
    ELSE json(SuccessBody, HTTP_STATUS.OK)

\* dbLayer.deleteTodo(env.DB, id): the function of src/db.js, or the stub
\* resolving to x that a test put in its place (which leaves the table alone).
dbLayer_deleteTodo(T, id, x) ==
    IF x = NoStub THEN deleteTodo(T, id) ELSE [table |-> T, result |-> x]

\* router.delete("/todos/:id"), with dbLayer.deleteTodo stubbed to x or not
deleteTodoRoute(T, q, r, f, x) ==
    LET validation == validateTodoId(r.path[2])
        id == validation.parsedId
        done == dbLayer_deleteTodo(T, id, x)
    IN  IF ~validation.isValid THEN Reject(T, q, validation.error)
        ELSE IF f.at = 1
        THEN Outcome(dbFailure(f), T, q, <<"deleteTodo">>, f)
        ELSE Outcome(deleteResponse(done.result), done.table, q,
                     <<"deleteTodo">>, NoFault)

\* Mutant: unmatched requests are answered 404.
catchAll_404(T, q, r, f) ==
    Outcome(json(ErrorBody("Not Found"), HTTP_STATUS.NOT_FOUND),
            T, q, <<>>, NoFault)

\* router.all("*")
catchAll(T, q, r, f) ==
    Outcome(json(ErrorBody("Not Found"), HTTP_STATUS.METHOD_NOT_ALLOWED),
            T, q, <<>>, NoFault)

\* The route a request is dispatched to: the first registered route whose
\* method and path pattern match (a pattern segment :id matches one segment).
Route(r) ==
    CASE r.method = "GET" /\ r.path = <<>> -> "root"
      [] r.method = "GET" /\ r.path = <<S_todos>> -> "listTodos"
      [] r.method = "GET" /\ Len(r.path) = 2 /\ r.path[1] = S_todos -> "getTodo"
      [] r.method = "POST" /\ r.path = <<S_todos>> -> "createTodo"
      [] r.method = "PUT" /\ Len(r.path) = 2 /\ r.path[1] = S_todos -> "updateTodo"
      [] r.method = "DELETE" /\ Len(r.path) = 2 /\ r.path[1] = S_todos -> "deleteTodo"
      [] OTHER -> "catchAll"

----------------------------------------------------------------------------
(* Inputs                                                                  *)

\* Path segments given as :id: the ids the table can hold and one beyond,
\* zero, a negative number, a word, digits followed by a letter.
IdSegments ==
    {ToDecimal(i) : i \in 0..(MaxId + 1)}
        \cup {<<"-", "1">>, <<"a", "b", "c">>, <<"1", "a">>}

GoodTitle == Str(<<"a">>)

Titles ==
    {Undefined, Null, Num(0), Num(5), Str(<<>>), Str(<<" ">>), Str(<<"\t", " ", "\n">>),
     GoodTitle, Str(<<" ", "a", " ", "\t", "b", " ">>)}

Descriptions ==
    {NoDescription, NullDescription, NumberDescription,
     Text(0, {}), Text(maxLength, {}), Text(maxLength + 1, {}),
     Text(maxLength, {"<script>"}), Text(maxLength + 1, {"javascript:"})}

Statuses ==
    {NoStatus, NullStatus, NumberStatus, Word("bogus"), Word("Complete")}
        \cup {Word(w) : w \in validStatuses}

\* Titles that are refused, and descriptions that are refused somewhere.
BadTitles == {Undefined, Str(<<" ">>)}
BadDescriptions ==
    {d \in Descriptions : isDescriptionTooLong(d) \/ isValidDescriptionThrows(d)
                              \/ ~isValidDescription(d)}

\* Bodies: each field over its whole set beside a good title, and refused
\* titles beside refused descriptions.
Bodies ==
    {Malformed, NullBody, NonObject}
        \cup {Object(t, NoDescription, NoStatus) : t \in Titles}
        \cup {Object(GoodTitle, d, NoStatus) : d \in Descriptions}
        \cup {Object(GoodTitle, NoDescription, st) : st \in Statuses}
        \cup {Object(t, d, NoStatus) : t \in BadTitles, d \in BadDescriptions}

\* a request without a body: request.json() rejects
NoBody == Malformed

PlainBody == Object(GoodTitle, NoDescription, NoStatus)

\* a body refused for its title and, were the title good, for its description
RefusedBody == Object(Undefined, Text(maxLength + 1, {}), NoStatus)

\* Method and path pairs that no route but the catch-all matches.
Unmatched ==
    {Request("POST", <<>>, NoBody), Request("PATCH", <<S_todos>>, NoBody),
     Request("DELETE", <<S_todos>>, NoBody), Request("PUT", <<S_todos>>, PlainBody),
     Request("GET", <<<<"a">>>>, NoBody),
     Request("POST", <<S_todos, <<"1">>>>, PlainBody),
     Request("GET", <<S_todos, <<"1">>, <<"x">>>>, NoBody),
     Request("GET", <<<<"a">>, <<"1">>>>, NoBody)}

\* PUT: every body for the segments validateTodoId accepts, three for the others.
Requests ==
    {Request("GET", <<>>, NoBody), Request("GET", <<S_todos>>, NoBody)}
        \cup Unmatched
        \cup {Request(m, <<S_todos, i>>, NoBody) : m \in {"GET", "DELETE"}, i \in IdSegments}
        \cup {Request("POST", <<S_todos>>, b) : b \in Bodies}
        \cup {Request("PUT", <<S_todos, i>>, b) :
                  i \in {x \in IdSegments : validateTodoId(x).isValid}, b \in Bodies}
        \cup {Request("PUT", <<S_todos, i>>, b) :
                  i \in IdSegments, b \in {Malformed, PlainBody, RefusedBody}}

\* What a failing persistence call throws: a value without a message, an
\* Error with an empty message, an Error with a message.
Thrown3 == {<<FALSE, "">>, <<TRUE, "">>, <<TRUE, "Custom error">>}

\* The failures that can strike request r, which issues n persistence calls
\* when none fails: any call may throw.  Failures are drawn for the requests
\* whose body sets no description and no status.
Faults(r, n) ==
    IF r.body.description = NoDescription /\ r.body.status = NoStatus
    THEN {NoFault} \cup {Fault(at, e[1], e[2]) : at \in 1..n, e \in Thrown3}
    ELSE {NoFault}

----------------------------------------------------------------------------
(* The machine: one request at a time is received and answered.            *)

NoRequest == Request("", <<>>, NoBody)
NoResponse == [status |-> 0, body |-> [kind |-> "none", error |-> "", rows |-> <<>>]]

Init ==
    /\ table = {}
    /\ seq = 0
    /\ req = NoRequest
    /\ res = NoResponse
    /\ prev = {}
    /\ calls = <<>>
    /\ failed = NoFault
    /\ route = ""
    /\ stub = NoStub
    /\ inflight = <<>>
    /\ arg = Undefined
    /\ out = <<>>

\* The request r, dispatched to the route named name, comes to outcome o.
\* A request is taken up when none is being answered (route = "").
Handle(r, name, o) ==
    /\ req' = r
    /\ route' = name
    /\ prev' = table
    /\ table' = o.table
    /\ seq' = o.seq
    /\ res' = o.res
    /\ calls' = o.calls
    /\ failed' = o.failed
    /\ stub' = NoStub
    /\ UNCHANGED <<inflight, arg, out>>

Root(R) ==
    /\ route = ""
    /\ \E r \in R :
        /\ Route(r) = "root"
        /\ \E o \in {root(table, seq, r, NoFault)} : Handle(r, "root", o)

ListTodos(R) ==
    /\ route = ""
    /\ \E r \in R :
        /\ Route(r) = "listTodos"
        /\ \E f \in Faults(r, Len(listTodos(table, seq, r, NoFault).calls)) :
               \E o \in {listTodos(table, seq, r, f)} : Handle(r, "listTodos", o)

GetTodo(R) ==
    /\ route = ""
    /\ \E r \in R :
        /\ Route(r) = "getTodo"
        /\ \E f \in Faults(r, Len(getTodo(table, seq, r, NoFault).calls)) :
               \E o \in {getTodo(table, seq, r, f)} : Handle(r, "getTodo", o)

CreateTodo(R) ==
    /\ route = ""
    /\ \E r \in R :
        /\ Route(r) = "createTodo"
        /\ seq < MaxId
        /\ \E f \in Faults(r, Len(createTodo(table, seq, r, NoFault).calls)) :
               \E o \in {createTodo(table, seq, r, f)} : Handle(r, "createTodo", o)

UpdateTodo(R) ==
    /\ route = ""
    /\ \E r \in R :
        /\ Route(r) = "updateTodo"
        /\ \E f \in Faults(r, Len(updateTodoRoute(table, seq, r, NoFault).calls)) :
               \E o \in {updateTodoRoute(table, seq, r, f)} : Handle(r, "updateTodo", o)

DeleteTodo(R) ==
    /\ route = ""
    /\ \E r \in R :
        /\ Route(r) = "deleteTodo"
        /\ \E f \in Faults(r, Len(deleteTodoRoute(table, seq, r, NoFault, NoStub).calls)) :
               \E o \in {deleteTodoRoute(table, seq, r, f, NoStub)} :
                   Handle(r, "deleteTodo", o)

CatchAll(R) ==
    /\ route = ""
    /\ \E r \in R :
        /\ Route(r) = "catchAll"
        /\ \E o \in {catchAll(table, seq, r, NoFault)} : Handle(r, "catchAll", o)

\* The results a test stub of dbLayer.deleteTodo resolves to: {}, {meta: {}},
\* and {meta: {changes: n}}.
StubResults ==
    {DeleteResult(FALSE, FALSE, 0), DeleteResult(TRUE, FALSE, 0)}
        \cup {DeleteResult(TRUE, TRUE, n) : n \in 0..2}

\* DELETE /todos/:id with dbLayer.deleteTodo replaced by a stub resolving to
\* x (sinon.stub(dbLayer, "deleteTodo").resolves(x)): the table is not touched.
DeleteTodoStubbed(R) ==
    /\ route = ""
    /\ \E r \in R, x \in StubResults :
        /\ Route(r) = "deleteTodo"
        /\ \E o \in {deleteTodoRoute(table, seq, r, NoFault, x)} :
            /\ o.calls # <<>>
            /\ req' = r
            /\ route' = "deleteTodo"
            /\ prev' = table
            /\ table' = o.table
            /\ seq' = o.seq
            /\ res' = o.res
            /\ calls' = o.calls
            /\ failed' = o.failed
            /\ stub' = x
            /\ UNCHANGED <<inflight, arg, out>>

\* app.fetch resolves: the response leaves, the next request can arrive.
Respond ==
    /\ route # ""
    /\ req' = NoRequest
    /\ res' = NoResponse
    /\ prev' = table
    /\ calls' = <<>>
    /\ failed' = NoFault
    /\ route' = ""
    /\ stub' = NoStub
    /\ UNCHANGED <<table, seq, inflight, arg, out>>

Next ==
    \/ Root(Requests)
    \/ ListTodos(Requests)
    \/ GetTodo(Requests)
    \/ CreateTodo(Requests)
    \/ UpdateTodo(Requests)
    \/ DeleteTodo(Requests)
    \/ CatchAll(Requests)
    \/ Respond

Spec == Init /\ [][Next]_vars

\* The same machine when tests may stub dbLayer.deleteTodo.
NextStub == Next \/ DeleteTodoStubbed(Requests)

SpecStub == Init /\ [][NextStub]_vars

----------------------------------------------------------------------------
(* The machine over descriptions of every length and content               *)

\* the patterns isValidDescription looks for
Blocklist == {"<script>", "javascript:", "onerror=", "onload="}

\* Descriptions: absent, null, and strings of the lengths around the two
\* limits holding none, one or two of the patterns (the empty string none).
WideDescriptions ==
    {NoDescription, NullDescription}
        \cup {d \in {Text(n, h) : n \in {0, 20, maxLength, maxLength + 1, extremeLength + 1},
                                  h \in {{}, {"<script>", "onload="}}
                                           \cup {{w} : w \in Blocklist}} :
                  d.len = 0 => d.has = {}}

DescriptionRequests ==
    {Request("POST", <<S_todos>>, Object(GoodTitle, d, NoStatus)) : d \in WideDescriptions}
        \cup {Request("PUT", <<S_todos, ToDecimal(i)>>, Object(GoodTitle, d, NoStatus)) :
                  i \in 1..MaxId, d \in WideDescriptions}
        \cup {Request("DELETE", <<S_todos, ToDecimal(i)>>, NoBody) : i \in 1..MaxId}

NextDescriptions ==
    \/ CreateTodo(DescriptionRequests)
    \/ UpdateTodo(DescriptionRequests)
    \/ DeleteTodo(DescriptionRequests)
    \/ Respond

SpecDescriptions == Init /\ [][NextDescriptions]_vars

----------------------------------------------------------------------------
(* Requests handled at the same time: a handler gives way at every await   *)
(* of a persistence call, and each statement runs on the table atomically. *)

Clients == {"c1", "c2"}

\* a client with no request in flight; own is the id its insert was given
Idle == [req |-> NoRequest, pc |-> "idle", res |-> NoResponse, own |-> 0]

OtherTitle == Str(<<"b">>)

ConcurrentRequests ==
    {Request("POST", <<S_todos>>, Object(t, NoDescription, NoStatus)) :
         t \in {GoodTitle, OtherTitle, Undefined}}
        \cup {Request("PUT", <<S_todos, ToDecimal(i)>>, Object(OtherTitle, d, Word("complete"))) :
                  i \in 1..MaxId, d \in {NoDescription, Text(maxLength + 1, {})}}
        \cup {Request("DELETE", <<S_todos, ToDecimal(i)>>, NoBody) : i \in 1..MaxId}

InitConcurrent ==
    /\ table = {}
    /\ seq = 0
    /\ req = NoRequest
    /\ res = NoResponse
    /\ prev = {}
    /\ calls = <<>>
    /\ failed = NoFault
    /\ route = ""
    /\ stub = NoStub
    /\ inflight = [c \in Clients |-> Idle]
    /\ arg = Undefined
    /\ out = <<>>

\* the handler of c moves to pc with response response
Proceed(c, pc, response) ==
    inflight' = [inflight EXCEPT ![c].pc = pc, ![c].res = response]

\* The handler runs up to its first await of a persistence call: a request
\* refused by validation is answered at once.
Receive(c) ==
    /\ inflight[c].pc = "idle"
    /\ \E r \in ConcurrentRequests :
           LET entry == CASE Route(r) = "createTodo" -> createTodo(table, seq, r, NoFault)
                          [] Route(r) = "updateTodo" -> updateTodoRoute(table, seq, r, NoFault)
                          [] OTHER -> deleteTodoRoute(table, seq, r, NoFault, NoStub)
           IN  inflight' = [inflight EXCEPT ![c] =
                   IF entry.calls = <<>>
                   THEN [req |-> r, pc |-> "done", res |-> entry.res, own |-> 0]
                   ELSE [req |-> r, pc |-> entry.calls[1], res |-> NoResponse, own |-> 0]]
    /\ UNCHANGED <<table, seq, req, res, prev, calls, failed, route, stub, arg, out>>

\* await dbLayer.insertTodo(env.DB, sanitizedTitle, description, status)
AwaitInsertTodo(c) ==
    /\ inflight[c].pc = "insertTodo"
    /\ seq < MaxId
    /\ LET body == inflight[c].req.body
           status == IF isValidStatus(body.status) THEN body.status.w ELSE DEFAULT_STATUS
           ins == insertTodo(table, seq, sanitizeTitle(body.title),
                             DescOrNull(body.description), status)
       IN  /\ table' = ins.table
           /\ seq' = ins.seq
           /\ inflight' = [inflight EXCEPT ![c].pc = "getLatestTodo", ![c].own = ins.seq]
    /\ UNCHANGED <<req, res, prev, calls, failed, route, stub, arg, out>>

\* const { results } = await dbLayer.getLatestTodo(env.DB); return json(results[0], 201)
AwaitGetLatestTodo(c) ==
    /\ inflight[c].pc = "getLatestTodo"
    /\ Proceed(c, "done", json(TodoBody(getLatestTodo(table).results), HTTP_STATUS.CREATED))
    /\ UNCHANGED <<table, seq, req, res, prev, calls, failed, route, stub, arg, out>>

\* await dbLayer.todoExists(env.DB, id), then the description length check
AwaitTodoExists(c) ==
    /\ inflight[c].pc = "todoExists"
    /\ LET r == inflight[c].req
           id == validateTodoId(r.path[2]).parsedId
       IN  IF Len(todoExists(table, id).results) = 0
           THEN Proceed(c, "done", json(ErrorBody("Not found"), HTTP_STATUS.NOT_FOUND))
           ELSE IF isDescriptionTooLong(DescOrNull(r.body.description))
           THEN Proceed(c, "done",
                        json(ErrorBody("Description is too long (max 1000 characters)"),
                             HTTP_STATUS.BAD_REQUEST))
           ELSE Proceed(c, "updateTodo", NoResponse)
    /\ UNCHANGED <<table, seq, req, res, prev, calls, failed, route, stub, arg, out>>

\* await dbLayer.updateTodo(env.DB, id, sanitizedTitle, description, status)
AwaitUpdateTodo(c) ==
    /\ inflight[c].pc = "updateTodo"
    /\ LET r == inflight[c].req
           id == validateTodoId(r.path[2]).parsedId
           status == IF isValidStatus(r.body.status) THEN r.body.status.w ELSE DEFAULT_STATUS
       IN  table' = updateTodo(table, id, sanitizeTitle(r.body.title),
                               DescOrNull(r.body.description), status).table
    /\ Proceed(c, "getTodoById", NoResponse)
    /\ UNCHANGED <<seq, req, res, prev, calls, failed, route, stub, arg, out>>

\* const { results: updated } = await dbLayer.getTodoById(env.DB, id);
\* return json(updated[0], 200)
AwaitGetTodoById(c) ==
    /\ inflight[c].pc = "getTodoById"
    /\ LET id == validateTodoId(inflight[c].req.path[2]).parsedId
       IN  Proceed(c, "done", json(TodoBody(getTodoById(table, id).results), HTTP_STATUS.OK))
    /\ UNCHANGED <<table, seq, req, res, prev, calls, failed, route, stub, arg, out>>

\* const result = await dbLayer.deleteTodo(env.DB, id), then the response
AwaitDeleteTodo(c) ==
    /\ inflight[c].pc = "deleteTodo"
    /\ LET id == validateTodoId(inflight[c].req.path[2]).parsedId
           done == deleteTodo(table, id)
       IN  /\ table' = done.table
           /\ Proceed(c, "done", deleteResponse(done.result))
    /\ UNCHANGED <<seq, req, res, prev, calls, failed, route, stub, arg, out>>

\* the response leaves; the client may send its next request
Reply(c) ==
    /\ inflight[c].pc = "done"
    /\ inflight' = [inflight EXCEPT ![c] = Idle]
    /\ UNCHANGED <<table, seq, req, res, prev, calls, failed, route, stub, arg, out>>

NextConcurrent ==
    \E c \in Clients :
        \/ Receive(c)
        \/ AwaitInsertTodo(c)
        \/ AwaitGetLatestTodo(c)
        \/ AwaitTodoExists(c)
        \/ AwaitUpdateTodo(c)
        \/ AwaitGetTodoById(c)
        \/ AwaitDeleteTodo(c)
        \/ Reply(c)

SpecConcurrent == InitConcurrent /\ [][NextConcurrent]_vars

----------------------------------------------------------------------------
(* sanitizeTitle on its own: every value it can be called with             *)

TitleChars == {" ", "\t", "\n", "a", "b"}

StringsUpTo(n) == UNION {[1..k -> TitleChars] : k \in 0..n}

\* body.title: absent, null, a number, or a string
TitleInputs ==
    {Undefined, Null, Num(0), Num(5)} \cup {Str(s) : s \in StringsUpTo(MaxTitleLen)}

InitTitle ==
    /\ table = {}
    /\ seq = 0
    /\ req = NoRequest
    /\ res = NoResponse
    /\ prev = {}
    /\ calls = <<>>
    /\ failed = NoFault
    /\ route = ""
    /\ stub = NoStub
    /\ inflight = <<>>
    /\ arg \in TitleInputs
    /\ out = <<>>

\* const sanitizedTitle = sanitizeTitle(body.title)
SanitizeTitle ==
    /\ out = <<>>
    /\ out' = <<sanitizeTitle(arg)>>
    /\ UNCHANGED <<table, seq, req, res, prev, calls, failed, route, stub, inflight, arg>>

\* the title returned is submitted again and sanitized again
SanitizeAgain ==
    /\ Len(out) = 1
    /\ out' = Append(out, sanitizeTitle(Str(out[1])))
    /\ UNCHANGED <<table, seq, req, res, prev, calls, failed, route, stub, inflight, arg>>

NextTitle == SanitizeTitle \/ SanitizeAgain

SpecTitle == InitTitle /\ [][NextTitle]_vars

----------------------------------------------------------------------------
(* Properties                                                              *)

Ids(T) == {row.id : row \in T}

\* the id a request of a /todos/:id route names
PathId == validateTodoId(req.path[2])

\* the four values of the status enumeration
StatusEnumeration == {"incomplete", "in-progress", "complete", "archived"}

\* s is a decimal integer strictly greater than zero
IsPositiveDecimal(s) ==
    /\ s # <<>>
    /\ \A i \in 1..Len(s) : IsDigit(s[i])
    /\ \E i \in 1..Len(s) : s[i] # "0"

OnlyWhiteSpace(s) == \A i \in 1..Len(s) : s[i] \in WhiteSpace

\* no leading or trailing whitespace, no two whitespace characters in a row
Normalized(s) ==
    /\ s # <<>>
    /\ s[1] \notin WhiteSpace
    /\ s[Len(s)] \notin WhiteSpace
    /\ \A i \in 1..(Len(s) - 1) : ~(s[i] \in WhiteSpace /\ s[i + 1] \in WhiteSpace)

NotFound == json(ErrorBody("Not found"), 404)

TooLong == json(ErrorBody("Description is too long (max 1000 characters)"), 400)

\* the request passed the JSON and title checks
TitleAccepted == req.body.k = "object" /\ sanitizeTitle(req.body.title) # <<>>

\* C1: round trip.  Whenever create answers 201, get-by-id of the id in the
\* 201 body, issued next, answers 200 with a row whose title is the sanitized
\* request title, whose description is the request's (null when omitted) and
\* whose status is the request's when it is one of the four and incomplete
\* otherwise.
C1_RoundTrip ==
    (route = "createTodo" /\ res.status = 201) =>
        /\ res.body.kind = "todo"
        /\ LET created == res.body.rows[1]
               get == getTodo(table, seq,
                              Request("GET", <<S_todos, ToDecimal(created.id)>>, NoBody),
                              NoFault).res
               D == req.body.description
               S == req.body.status
           IN  /\ get.status = 200
               /\ get.body.kind = "todo"
               /\ get.body.rows[1].id = created.id
               /\ get.body.rows[1].title = sanitizeTitle(req.body.title)
               /\ get.body.rows[1].description =
                      (IF D.t = "undefined" THEN NullDescription ELSE D)
               /\ get.body.rows[1].status =
                      (IF S.t = "string" /\ S.w \in StatusEnumeration
                       THEN S.w ELSE "incomplete")

\* a create of a title with stray whitespace answered 201 after an earlier
\* create and delete
C1_Witness ==
    /\ route = "createTodo"
    /\ res.status = 201
    /\ req.body.title = Str(<<" ", "a", " ", "\t", "b", " ">>)
    /\ seq = 2
    /\ prev = {}

\* C2 as stated: PUT with a valid id that is not in the table answers 404
\* "Not found" whatever the body (no persistence call failing).
C2_AnyBody404 ==
    (route = "updateTodo" /\ PathId.isValid /\ PathId.parsedId \notin Ids(prev)
         /\ failed = NoFault /\ req.body.k # "null")
        => res = NotFound

\* C2 amended: PUT with a valid id that is not in the table answers 404
\* "Not found" for every body that is a JSON object whose title is non-empty
\* after sanitizing, whatever its description and status, when the existence
\* check does not fail; a malformed body or a missing or empty title is
\* answered 400 before the table is looked at.
C2_Amended ==
    (route = "updateTodo" /\ PathId.isValid /\ PathId.parsedId \notin Ids(prev)
         /\ failed = NoFault /\ req.body.k # "null")
        => IF TitleAccepted
           THEN res = NotFound /\ calls = <<"todoExists">>
           ELSE res.status = 400 /\ calls = <<>>

\* an update of an absent id with an over-long description answered 404
\* while another row exists
C2_Witness ==
    /\ route = "updateTodo"
    /\ res = NotFound
    /\ req.body.description.len > 1000
    /\ prev # {}

\* C3: a path id that is not a decimal integer above zero is answered 400
\* "Invalid ID" by get-by-id, update and delete.
C3_InvalidIdRejected ==
    (route \in {"getTodo", "updateTodo", "deleteTodo"} /\ ~IsPositiveDecimal(req.path[2]))
        => res = json(ErrorBody("Invalid ID"), 400)

\* C4: a title made only of whitespace (the empty string included) sanitizes
\* to the empty string and is refused by create and update with 400
\* "Title cannot be empty".
C4_WhitespaceTitleRejected ==
    ( /\ route \in {"createTodo", "updateTodo"}
      /\ route = "updateTodo" => PathId.isValid
      /\ req.body.k = "object"
      /\ req.body.title.t = "string"
      /\ OnlyWhiteSpace(req.body.title.s) )
        => /\ sanitizeTitle(req.body.title) = <<>>
           /\ res = json(ErrorBody("Title cannot be empty"), 400)

\* C5 as stated: a create or update that passes the id, JSON and title checks
\* and carries a description longer than 1000 characters is answered 400 "too
\* long", for update whether or not the id exists.
C5_TooLongAlways ==
    ( /\ route \in {"createTodo", "updateTodo"}
      /\ route = "updateTodo" => PathId.isValid
      /\ TitleAccepted
      /\ failed = NoFault
      /\ req.body.description.t = "string"
      /\ req.body.description.len > 1000 )
        => res = TooLong

\* C5 amended: such a request is answered 400 "too long" whatever the
\* description contains; for update this holds when the id is in the table
\* and the existence check does not fail, and an update of an id that is not
\* in the table is answered 404 "Not found" instead.
C5_Amended ==
    ( /\ route \in {"createTodo", "updateTodo"}
      /\ route = "updateTodo" => PathId.isValid
      /\ TitleAccepted
      /\ failed = NoFault
      /\ req.body.description.t = "string"
      /\ req.body.description.len > 1000 )
        => /\ table = prev
           /\ IF route = "updateTodo" /\ PathId.parsedId \notin Ids(prev)
              THEN res = NotFound
              ELSE res = TooLong

\* an update of an existing row refused for its over-long description, which
\* also contains a block-listed substring
C5_Witness ==
    /\ route = "updateTodo"
    /\ res = TooLong
    /\ req.body.description.has # {}
    /\ PathId.parsedId \in Ids(prev)

\* C6: every stored todo has a non-empty title in normalized form and a
\* status of the enumeration.
C6_StoredTodosValid ==
    \A row \in table :
        /\ Normalized(row.title)
        /\ row.status \in StatusEnumeration

\* two rows, one with a title that had whitespace collapsed, one updated to
\* a status other than the default
C6_Witness ==
    /\ route = "updateTodo"
    /\ \E row \in table : row.title = <<"a", " ", "b">>
    /\ \E row \in table : row.status = "archived"

\* C7: all or nothing.  A create not answered 201 and an update not answered
\* 200 leave the table as it was.
C7_AllOrNothing ==
    /\ (route = "createTodo" /\ res.status # 201) => table = prev
    /\ (route = "updateTodo" /\ res.status # 200) => table = prev

\* C8: a delete of a valid id that is not in the table is never answered
\* 200 and leaves the table unchanged; it is answered 404 "Not found"
\* (whenever the persistence call itself does not fail).
C8_DeleteAbsent ==
    (route = "deleteTodo" /\ PathId.isValid /\ PathId.parsedId \notin Ids(prev))
        => /\ res.status # 200
           /\ table = prev
           /\ failed = NoFault => res = NotFound

\* a delete answered 404 for an id that was assigned and deleted earlier,
\* while another row exists
C8_Witness ==
    /\ route = "deleteTodo"
    /\ res = NotFound
    /\ PathId.isValid
    /\ PathId.parsedId <= seq
    /\ prev # {}

\* what deleteTodo resolved to while the last request was handled
DeleteResolved == dbLayer_deleteTodo(prev, PathId.parsedId, stub).result

\* C9: a delete with a valid id whose persistence call does not fail is
\* answered 404 "Not found" when the result reports zero affected rows or
\* carries no count (no meta, or meta without a count), and 200 {success:
\* true} otherwise.
C9_DeleteByCount ==
    (route = "deleteTodo" /\ PathId.isValid /\ failed = NoFault)
        => IF ~DeleteResolved.hasMeta \/ ~DeleteResolved.hasChanges
                  \/ DeleteResolved.changes = 0
           THEN res = NotFound
           ELSE res = json(SuccessBody, 200)

\* C10: when a persistence call of list, get-by-id, create, update or delete
\* fails, whichever call of the request it is, the response is 500 with the
\* failure's message when it has a non-empty one and "DB failure" otherwise,
\* and no further call is made.
C10_FailureIs500 ==
    failed.at # 0 =>
        /\ route \in {"listTodos", "getTodo", "createTodo", "updateTodo", "deleteTodo"}
        /\ Len(calls) = failed.at
        /\ res.status = 500
        /\ res.body.kind = "error"
        /\ res.body.error =
               (IF failed.hasMessage /\ failed.message # "" THEN failed.message
                ELSE "DB failure")

\* the third persistence call of an update failed with an empty message
C10_Witness ==
    /\ route = "updateTodo"
    /\ failed.at = 3
    /\ failed.hasMessage
    /\ failed.message = ""
    /\ res.status = 500

----------------------------------------------------------------------------
(* Responses and the order of the checks                                   *)

\* the statuses listed for each route
RouteStatuses ==
    [root |-> {200},
     listTodos |-> {200, 500},
     getTodo |-> {200, 400, 404, 500},
     createTodo |-> {201, 400, 500},
     updateTodo |-> {200, 400, 404, 500},
     deleteTodo |-> {200, 400, 404, 500},
     catchAll |-> {405}]

\* C11: every request receives a response whose status is one of those
\* listed for its route, and every response with status 400 or above has the
\* body {error: <string>}; no input makes a handler fail without a response.
C11_AlwaysResponds ==
    route # "" =>
        /\ res.status \in RouteStatuses[route]
        /\ res.status >= 400 => res.body.kind = "error"

BadRequest(text) == json(ErrorBody(text), 400)

\* the status a request asks for, once defaulted
EffectiveStatus ==
    IF req.body.status.t = "string" /\ req.body.status.w \in StatusEnumeration
    THEN req.body.status.w
    ELSE "incomplete"

\* The checks of create and update, as the request passes or fails them.
\* A title that is given but falsy ("" or 0) is neither absent nor present.
BodyParses == req.body.k # "malformed"
TitleAbsent == req.body.title.t \in {"undefined", "null"}
TitlePresent == Truthy(req.body.title)
TitleEmpty == sanitizeTitle(req.body.title) = <<>>
DescriptionOver ==
    req.body.description.t = "string" /\ req.body.description.len > 1000
DescriptionBlocked ==
    req.body.description.t = "string" /\ req.body.description.has # {}
TitleMessages(required) ==
    {BadRequest(required), BadRequest("Title cannot be empty")}

\* C12: create answers with the 400 of the first check that fails, in the
\* order JSON, title present, title non-empty after sanitizing, description
\* length, description blocklist; a request passing all of them is never
\* answered 400.
C12_CreateOrder ==
    (route = "createTodo" /\ res # Thrown) =>
        /\ ~BodyParses => res = BadRequest("Invalid JSON")
        /\ (BodyParses /\ TitleAbsent) => res = BadRequest("Title required")
        /\ (BodyParses /\ ~TitleAbsent /\ ~TitlePresent)
               => res \in TitleMessages("Title required")
        /\ (BodyParses /\ TitlePresent /\ TitleEmpty)
               => res = BadRequest("Title cannot be empty")
        /\ (BodyParses /\ TitlePresent /\ ~TitleEmpty /\ DescriptionOver)
               => res = TooLong
        /\ (BodyParses /\ TitlePresent /\ ~TitleEmpty /\ ~DescriptionOver
                /\ DescriptionBlocked)
               => res = BadRequest("Description contains invalid content")
        /\ (BodyParses /\ TitlePresent /\ ~TitleEmpty /\ ~DescriptionOver
                /\ ~DescriptionBlocked)
               => res.status \in {201, 500}

\* a create failing both description checks, answered for the length
C12_Witness ==
    /\ route = "createTodo"
    /\ DescriptionOver
    /\ DescriptionBlocked
    /\ res = TooLong

\* the path id is a decimal integer above zero / parses to nothing above zero
IdPasses == IsPositiveDecimal(req.path[2])
IdFails == parseInt(req.path[2]).nan \/ parseInt(req.path[2]).v <= 0

\* C13: update answers with the response of the first check that fails, in
\* the order id, JSON, title present, title non-empty after sanitizing, row
\* exists, description length.
C13_UpdateOrder ==
    (route = "updateTodo" /\ res # Thrown /\ failed = NoFault) =>
        /\ IdFails => res = BadRequest("Invalid ID")
        /\ (IdPasses /\ ~BodyParses) => res = BadRequest("Invalid JSON")
        /\ (IdPasses /\ BodyParses /\ TitleAbsent)
               => res = BadRequest("Title required for PUT")
        /\ (IdPasses /\ BodyParses /\ ~TitleAbsent /\ ~TitlePresent)
               => res \in TitleMessages("Title required for PUT")
        /\ (IdPasses /\ BodyParses /\ TitlePresent /\ TitleEmpty)
               => res = BadRequest("Title cannot be empty")
        /\ (IdPasses /\ BodyParses /\ TitlePresent /\ ~TitleEmpty
                /\ PathId.parsedId \notin Ids(prev))
               => res = NotFound
        /\ (IdPasses /\ BodyParses /\ TitlePresent /\ ~TitleEmpty
                /\ PathId.parsedId \in Ids(prev) /\ DescriptionOver)
               => res = TooLong
        /\ (IdPasses /\ BodyParses /\ TitlePresent /\ ~TitleEmpty
                /\ PathId.parsedId \in Ids(prev) /\ ~DescriptionOver)
               => res.status = 200

\* an update with an invalid id and a malformed body, answered for the id,
\* while the table holds a row
C13_Witness ==
    /\ route = "updateTodo"
    /\ IdFails
    /\ ~BodyParses
    /\ res = BadRequest("Invalid ID")
    /\ prev # {}

ValidButForStatus ==
    /\ route \in {"createTodo", "updateTodo"}
    /\ failed = NoFault
    /\ TitleAccepted
    /\ \/ req.body.description.t \in {"undefined", "null"}
       \/ req.body.description.t = "string" /\ ~DescriptionOver /\ ~DescriptionBlocked
    /\ route = "updateTodo" => (IdPasses /\ PathId.parsedId \in Ids(prev))

\* C15: a status that is absent, null, not a string, or not one of the four
\* words is replaced by incomplete and the request proceeds; each of the four
\* words is stored unchanged.
C15_StatusNeverRejects ==
    ValidButForStatus =>
        /\ res.status = (IF route = "createTodo" THEN 201 ELSE 200)
        /\ res.body.kind = "todo"
        /\ res.body.rows[1].status = EffectiveStatus
        /\ \E row \in table :
               row.id = res.body.rows[1].id /\ row.status = EffectiveStatus

\* an archived row updated with the status "Complete" (wrong case) is stored
\* as incomplete
C15_Witness ==
    /\ route = "updateTodo"
    /\ res.status = 200
    /\ req.body.status = Word("Complete")
    /\ \E row \in prev : row.id = PathId.parsedId /\ row.status = "archived"
    /\ \E row \in table : row.id = PathId.parsedId /\ row.status = "incomplete"

----------------------------------------------------------------------------
(* Reads, the in-place update and unmatched requests                       *)

\* C16: an update of a stored id with valid input is answered 200 with the
\* row of that id carrying the sanitized title, the request's description
\* (null when omitted) and the effective status; the set of ids and every
\* other row are unchanged.
C16_UpdateInPlace ==
    ( /\ route = "updateTodo"
      /\ failed = NoFault
      /\ IdPasses
      /\ PathId.parsedId \in Ids(prev)
      /\ TitleAccepted
      /\ ~DescriptionOver )
        => LET D == req.body.description
               updated == Row(PathId.parsedId,
                              sanitizeTitle(req.body.title),
                              IF D.t = "undefined" THEN NullDescription ELSE D,
                              EffectiveStatus)
           IN  /\ res.status = 200
               /\ res.body.kind = "todo"
               /\ res.body.rows[1] = updated
               /\ updated \in table
               /\ Ids(table) = Ids(prev)
               /\ Cardinality(table) = Cardinality(prev)
               /\ \A other \in prev : other.id # PathId.parsedId => other \in table

\* one of two stored rows gets a new title, description and status
C16_Witness ==
    /\ route = "updateTodo"
    /\ res.status = 200
    /\ Cardinality(prev) = 2
    /\ table # prev
    /\ \E row \in table : row.status = "complete" /\ row.id = PathId.parsedId
    /\ \E row \in table : row.id # PathId.parsedId

\* C17: get-by-id with a valid id answers 200 with the stored row of exactly
\* that id when there is one and 404 "Not found" when there is none; it never
\* answers with a row of another id.
C17_GetById ==
    /\ (route = "getTodo" /\ IdPasses /\ failed = NoFault) =>
           /\ table = prev
           /\ IF PathId.parsedId \in Ids(prev)
              THEN /\ res.status = 200
                   /\ res.body.kind = "todo"
                   /\ res.body.rows[1] \in prev
                   /\ res.body.rows[1].id = PathId.parsedId
              ELSE res = NotFound
    /\ (route = "getTodo" /\ res.status = 200) =>
           /\ res.body.kind = "todo"
           /\ res.body.rows[1].id = parseInt(req.path[2]).v

\* the second of two stored rows is fetched
C17_Witness ==
    /\ route = "getTodo"
    /\ res.status = 200
    /\ Cardinality(prev) = 2
    /\ res.body.rows[1].id = 2

\* C18: list answers 200 with an array holding exactly the stored rows, each
\* once, and the empty array when the table is empty.
C18_ListAll ==
    (route = "listTodos" /\ failed = NoFault) =>
        /\ table = prev
        /\ res.status = 200
        /\ res.body.kind = "list"
        /\ {res.body.rows[i] : i \in 1..Len(res.body.rows)} = table
        /\ Len(res.body.rows) = Cardinality(table)

\* two rows are listed, one of them updated since it was created
C18_Witness ==
    /\ route = "listTodos"
    /\ res.status = 200
    /\ Len(res.body.rows) = 2
    /\ \E i \in 1..2 : res.body.rows[i].status = "archived"

\* the method and path of r match one of the six routes
MatchesRoute(r) ==
    \/ r.method = "GET" /\ r.path = <<>>
    \/ r.method \in {"GET", "POST"} /\ r.path = <<S_todos>>
    \/ r.method \in {"GET", "PUT", "DELETE"} /\ Len(r.path) = 2 /\ r.path[1] = S_todos

C20_Root ==
    (route # "" /\ req.method = "GET" /\ req.path = <<>>) =>
        /\ res = json(OkBody, 200)
        /\ calls = <<>>
        /\ table = prev

\* GET / answered while the table holds two rows
C20_Witness ==
    /\ route = "root"
    /\ res.status = 200
    /\ Cardinality(table) = 2

----------------------------------------------------------------------------
(* The test of GET /, the frame of the table, the order of the calls       *)

\* C21: a GET request to the path /a (the request of the test "GET / ->
\* should return ok true") is answered 200 with a body whose ok is true.
C21_GetAIsOk ==
    (route # "" /\ req.method = "GET" /\ req.path = <<<<"a">>>>) =>
        /\ res.status = 200
        /\ res.body.kind = "ok"

\* C25: the table changes only through the insert of a create, the update
\* statement of an update and the delete statement of a delete; list,
\* get-by-id, GET /, unmatched requests and every request answered 400 or 404
\* leave it as it was.
C25_TableFrame ==
    route # "" =>
        /\ route \in {"listTodos", "getTodo", "root", "catchAll"} => table = prev
        /\ res.status \in {400, 404} => table = prev
        /\ table # prev =>
               \/ route = "createTodo" /\ calls[1] = "insertTodo"
               \/ route = "updateTodo" /\ Len(calls) >= 2 /\ calls[2] = "updateTodo"
               \/ route = "deleteTodo" /\ calls = <<"deleteTodo">>

\* a delete answered 404 for an id assigned earlier, the other row staying
C25_Witness ==
    /\ route = "deleteTodo"
    /\ res.status = 404
    /\ seq = 2
    /\ Cardinality(table) = 1
    /\ table = prev

IsPrefix(s, t) == Len(s) <= Len(t) /\ s = SubSeq(t, 1, Len(s))

\* C26: within one request the persistence calls are issued one after
\* another, each at most once: create calls insert and then the fetch of the
\* latest row only after the insert succeeded; update calls the existence
\* check, the update only after a non-empty result, and the re-fetch only
\* after the update succeeded; list, get-by-id and delete make one call;
\* after a failed call no further call is made.
C26_CallsInOrder ==
    route # "" =>
        /\ route \in {"root", "catchAll"} => calls = <<>>
        /\ route = "listTodos" => calls = <<"getAllTodos">>
        /\ route = "getTodo" =>
               calls = (IF PathId.isValid THEN <<"getTodoById">> ELSE <<>>)
        /\ route = "deleteTodo" =>
               calls = (IF PathId.isValid THEN <<"deleteTodo">> ELSE <<>>)
        /\ route = "createTodo" =>
               /\ IsPrefix(calls, <<"insertTodo", "getLatestTodo">>)
               /\ Len(calls) = 2 => (failed.at # 1 /\ table # prev)
        /\ route = "updateTodo" =>
               /\ IsPrefix(calls, <<"todoExists", "updateTodo", "getTodoById">>)
               /\ Len(calls) >= 2 => (failed.at # 1 /\ PathId.parsedId \in Ids(prev))
               /\ Len(calls) = 3 => failed.at # 2
        /\ failed.at # 0 => Len(calls) = failed.at

\* a create whose insert failed: the latest row is not fetched
C26_Witness ==
    /\ route = "createTodo"
    /\ failed.at = 1
    /\ calls = <<"insertTodo">>
    /\ res.status = 500
    /\ table # {}

----------------------------------------------------------------------------
(* Descriptions                                                            *)

\* C27: create rejects with 400 "Description contains invalid content" every
\* description of at most 1000 characters containing one of the four
\* patterns, without a persistence call, and accepts every other string of at
\* most 1000 characters and an absent or null description.
C27_BlocklistOnCreate ==
    ( /\ route = "createTodo"
      /\ failed = NoFault
      /\ TitleAccepted
      /\ req.body.description.t \in {"undefined", "null", "string"}
      /\ ~DescriptionOver )
        => IF req.body.description.t = "string"
                  /\ req.body.description.has \cap Blocklist # {}
           THEN /\ res = BadRequest("Description contains invalid content")
                /\ calls = <<>>
                /\ table = prev
           ELSE /\ res.status = 201
                /\ res.body.kind = "todo"
                /\ res.body.rows[1].description =
                       (IF req.body.description.t = "undefined"
                        THEN NullDescription ELSE req.body.description)

\* a short description holding onload= is refused while a row is stored
C27_Witness ==
    /\ route = "createTodo"
    /\ req.body.description = Text(20, {"onload="})
    /\ res = BadRequest("Description contains invalid content")
    /\ table # {}

\* C28: in every reachable table the description of every stored todo is
\* null or a string of at most 1000 characters holding none of the four
\* patterns.
C28_StoredDescriptionsClean ==
    \A row \in table :
        \/ row.description.t = "null"
        \/ /\ row.description.t = "string"
           /\ row.description.len <= 1000
           /\ row.description.has \cap Blocklist = {}

----------------------------------------------------------------------------
(* sanitizeTitle                                                           *)

\* the maximal runs of non-whitespace characters of s, in order (w: the run
\* being read)
RECURSIVE Words(_, _)
Words(s, w) ==
    IF s = <<>> THEN (IF w = <<>> THEN <<>> ELSE <<w>>)
    ELSE IF Head(s) \in WhiteSpace
         THEN (IF w = <<>> THEN <<>> ELSE <<w>>) \o Words(Tail(s), <<>>)
         ELSE Words(Tail(s), Append(w, Head(s)))

\* the words with exactly one space between neighbours
RECURSIVE JoinWithSpace(_)
JoinWithSpace(ws) ==
    IF ws = <<>> THEN <<>>
    ELSE IF Len(ws) = 1 THEN ws[1]
    ELSE ws[1] \o <<" ">> \o JoinWithSpace(Tail(ws))

\* C29: sanitizeTitle returns the empty string for a missing, null or
\* non-string input, and for a string returns it with leading and trailing
\* whitespace removed and every interior run of whitespace replaced by one
\* space, the other characters and their order kept.
C29_SanitizeTitle ==
    Len(out) >= 1 =>
        out[1] = (IF arg.t = "string" THEN JoinWithSpace(Words(arg.s, <<>>)) ELSE <<>>)

\* a tab and a newline between two letters become one space
C29_Witness ==
    /\ arg = Str(<<"a", "\t", "\n", "b">>)
    /\ Len(out) >= 1
    /\ out[1] = <<"a", " ", "b">>

\* C30: sanitizeTitle is idempotent: sanitizing its own result changes
\* nothing.
C30_Idempotent ==
    Len(out) = 2 => out[2] = out[1]

\* a title that sanitizing changed is sanitized again
C30_Witness ==
    /\ Len(out) = 2
    /\ arg = Str(<<" ", "a", " ", " ">>)
    /\ out[2] = <<"a">>

----------------------------------------------------------------------------
(* Requests handled at the same time                                       *)

\* the request of client c has been answered by the route named name
Answered(c, name) ==
    inflight[c].pc = "done" /\ Route(inflight[c].req) = name

\* C22: under any interleaving of an update with a delete of the same id, an
\* update answered 200 carries the todo of that id holding the update's
\* values, never an empty or missing body.
C22_UpdateReturnsRow ==
    \A c \in DOMAIN inflight :
        (Answered(c, "updateTodo") /\ inflight[c].res.status = 200) =>
            /\ inflight[c].res.body.kind = "todo"
            /\ inflight[c].res.body.rows[1].id =
                   validateTodoId(inflight[c].req.path[2]).parsedId
            /\ inflight[c].res.body.rows[1].title =
                   sanitizeTitle(inflight[c].req.body.title)

\* C23: under any interleaving of creates, a create answered 201 returns the
\* row its own insert wrote: its id and its title, description and status.
C23_CreateReturnsOwnRow ==
    \A c \in DOMAIN inflight :
        (Answered(c, "createTodo") /\ inflight[c].res.status = 201) =>
            /\ inflight[c].res.body.kind = "todo"
            /\ inflight[c].res.body.rows[1].id = inflight[c].own
            /\ inflight[c].res.body.rows[1].title =
                   sanitizeTitle(inflight[c].req.body.title)

\* C24: an update never adds a row: an id enters the table only by the
\* insert of a create, which gives it an id above every id assigned before;
\* so no update, started before or after a delete of its id, brings the
\* deleted row back.
C24_UpdateNeverAdds ==
    [][\A i \in Ids(table') \ Ids(table) :
           /\ i > seq
           /\ \E c \in DOMAIN inflight :
                  /\ inflight[c].pc = "insertTodo"
                  /\ inflight'[c].pc = "getLatestTodo"
                  /\ inflight'[c].own = i]_vars

\* an update that passed its existence check ran its statement after the
\* row was deleted: the row is still absent
C24_Witness ==
    \E c \in DOMAIN inflight :
        /\ inflight[c].pc = "getTodoById"
        /\ validateTodoId(inflight[c].req.path[2]).parsedId \notin Ids(table)
        /\ validateTodoId(inflight[c].req.path[2]).parsedId <= seq

====
